---- MODULE Spec2Model ----
(***************************************************************************)
(* Signal-Lane: the Socket.IO relay (initSocket), the /api/socket route,   *)
(* the useChat client that talks to them, and the REST routes              *)
(* /api/messages and /api/users with their tables.                         *)
(*                                                                         *)
(* The server is one Node.js process: every handler runs to completion,    *)
(* so each handler is one action.  The wire between a client and the       *)
(* server is a pair of FIFO queues per connection (inq: client -> server,  *)
(* outq: server -> client).                                                *)
(***************************************************************************)
EXTENDS Integers, Sequences, FiniteSets, TLC

\* ------------------------------------------------------------------ bounds
MaxConns    == 3   \* client slots that may hold a connection
MaxConnects == 2   \* connections accepted in one run (a slot may reconnect)
MaxEmits    == 1   \* events emitted by clients besides the identify on connect
MaxReloads  == 1   \* development hot reloads of the socket module
MaxSends    == 2   \* sendMessage / typing calls in a chat among open connections
MaxReqs     == 2   \* POST /api/users requests in one run
MaxStored   == 51  \* rows of table Message in a history run
MaxFailures == 1   \* GET /api/socket requests that fail in one run
MaxRuns     == 2   \* runs of the useChat effect of one ChatRoom

ConnIds == 1..MaxConns
Phones  == {"111", "222"}
Absent  == ""      \* an empty or missing field (falsy in the source)

\* null, the initial value of the module variable io
NoServer == 0
NameOf(c) == IF c = 1 THEN "A" ELSE IF c = 2 THEN "B" ELSE IF c = 3 THEN "C" ELSE "D"

VARIABLES
  nodeEnv,        \* process.env.NODE_ENV
  io,             \* module variable io (NoServer = null)
  isInitialized,  \* module variable isInitialized
  globalIO,       \* global._signalLaneIO (NoServer = undefined)
  servers,        \* Socket.IO servers created on the HTTP server
  handlers,       \* per server: connection handlers attached with io.on
  closureIo,      \* per server: the io its handlers' closure reads (io!)
  returned,       \* value returned by the last initSocket call
  reloads,        \* hot reloads so far
  live,           \* server side: sockets that are connected
  srvOf,          \* per connection: the server that accepted it
  listeners,      \* per connection: times the connection callback ran for it
  socketData,     \* per connection: socket.data.phone (SocketData)
  identified,     \* per connection: phone of the identify events the server read
  phoneOf,        \* per client: the phone option of useChat
  clientConnected,\* per client: socket.connected
  connectedUsers, \* per client: useChat state connectedUsers
  rx,             \* per client: the numbers of the message / typing events it received
  inq,            \* per connection: events in flight client -> server
  outq,           \* per connection: events in flight server -> client
  lastInfo,       \* connectedUsers of the last serverInfo the server emitted
  nConnects,      \* connections accepted so far
  nEmits,         \* client events emitted so far (their sequence numbers)
  targets,        \* per emitted event, once the server relayed it: the other
                  \* connections that were live then and still are
  before,         \* per connection: engine.clientsCount before it was accepted
  quiet,          \* per connection: no other connection came or went meanwhile
  lastClose,      \* the latest disconnect, until the next connect: the phone the
                  \* closed connection had identified with, or "unidentified"
  sent,           \* per emitted event: the payload the client put on the wire
  posts,          \* per emitted event: the POST /api/messages sendMessage issued for it
  messageTable,   \* table Message, in insertion order
  history,        \* body of the last GET /api/messages response
  gone,           \* per client: the ways its side of the connection has ended
  userTable,      \* table User
  userReqs,       \* the POST /api/users requests and where their handlers stand
  socketRoute,    \* /api/socket: status of the last response, errors it logged
  messages,       \* per client: useChat state messages
  typingUser,     \* per client: useChat state typingUser
  loads,          \* per client: the loadMessages call in flight
  lastCall,       \* the last call of sendMessage: who called, with what content
  effects,        \* one ChatRoom: the runs of the useChat effect
  socketRef       \* that ChatRoom's socketRef.current

vars == << nodeEnv, io, isInitialized, globalIO, servers, handlers, closureIo,
           returned, reloads, live, srvOf, listeners, socketData,
           identified, phoneOf, clientConnected, connectedUsers, rx, inq, outq,
           lastInfo, nConnects, nEmits, targets, before, quiet, lastClose,
           sent, posts, messageTable, history, gone, userTable, userReqs,
           socketRoute, messages, typingUser, loads, lastCall, effects, socketRef >>

moduleVars == << io, isInitialized, globalIO, servers, handlers, closureIo, returned >>
connVars   == << live, srvOf, listeners, socketData, identified, phoneOf,
                 clientConnected, connectedUsers, rx, inq, outq, lastInfo,
                 nConnects, nEmits, targets, before, quiet, lastClose >>
chatVars   == << sent, posts >>
storeVars  == << messageTable, history >>
userVars   == << userTable, userReqs >>
hookVars   == << messages, typingUser, loads, lastCall >>
effectVars == << effects, socketRef >>
clientVars == << socketRoute, messages, typingUser, loads, lastCall, effects, socketRef >>
restVars   == << sent, posts, messageTable, history, gone, userTable, userReqs,
                 socketRoute, messages, typingUser, loads, lastCall, effects, socketRef >>

\* ------------------------------------------------------------ wire events
Ev(type, name, phone, content, typing, n, seq) ==
  [type |-> type, name |-> name, phone |-> phone, content |-> content,
   typing |-> typing, connectedUsers |-> n, seq |-> seq]

ConnectPacket     == Ev("connect", Absent, Absent, Absent, Absent, 0, 0)
ServerInfo(n)     == Ev("serverInfo", Absent, Absent, Absent, Absent, n, 0)
Identify(p)       == Ev("identify", Absent, p, Absent, Absent, 0, 0)
Message(n, p, t, s) == Ev("message", n, p, t, Absent, 0, s)
Typing(n, f, s)   == Ev("typing", n, Absent, Absent, f, 0, s)

Copies(ev, k) == [i \in 1..k |-> ev]

\* no event (the slot of an event that was not emitted)
NoEvent == Ev("none", Absent, Absent, Absent, Absent, 0, 0)


\* ------------------------------------------------ initSocket (lib/socket)
\* mutant: step 1 is missing, every call builds a server
ReuseExisting_Never == FALSE

\* Step 1: if (io) return io
ReuseExisting == io # NoServer

\* Step 2: new IOServer(server, ...) attaches one more Socket.IO server
NewServerId == Cardinality(servers) + 1

\* Step 3: the guard of the handler registration
RegisterHandlers == ~isInitialized

\* Step 4: the instance io holds after the hot-reload step, for the new server n
AfterGlobalStep(n) ==
  IF nodeEnv = "development" /\ globalIO # NoServer THEN globalIO ELSE n

initSocket ==
  IF ReuseExisting
  THEN /\ returned' = io
       /\ UNCHANGED << io, isInitialized, globalIO, servers, handlers, closureIo >>
  ELSE LET n == NewServerId IN
       /\ servers' = servers \cup {n}
       /\ isInitialized' = TRUE
       /\ handlers' = IF RegisterHandlers
                      THEN [s \in servers' |-> IF s = n THEN 1 ELSE handlers[s]]
                      ELSE [s \in servers' |-> IF s = n THEN 0 ELSE handlers[s]]
       /\ globalIO' = IF nodeEnv = "development" /\ globalIO = NoServer
                      THEN n ELSE globalIO
       /\ io' = AfterGlobalStep(n)
       /\ closureIo' = [s \in servers' |-> IF s = n THEN io' ELSE closureIo[s]]
       /\ returned' = io'

\* res.socket.server.io: declared in SocketServer, assigned nowhere
ResSocketServerIo == NoServer

\* GET /api/socket (pages/api/socket.ts handler); any other method is answered
\* 405 before the handler reads or writes any state
ApiSocket(method) ==
  /\ method = "GET"
  /\ IF ResSocketServerIo = NoServer
     THEN initSocket
     ELSE UNCHANGED moduleVars
  /\ UNCHANGED << nodeEnv, reloads >>
  /\ UNCHANGED connVars

\* Next.js development re-evaluates the module: its let variables start over,
\* global and the HTTP server (with the servers attached to it) persist
HotReload ==
  /\ nodeEnv = "development"
  /\ reloads < MaxReloads
  /\ reloads' = reloads + 1
  /\ io' = NoServer
  /\ isInitialized' = FALSE
  /\ UNCHANGED << nodeEnv, globalIO, servers, handlers, closureIo, returned >>
  /\ UNCHANGED connVars

\* ------------------------------------------- Socket.IO server: connections
\* the sockets of server s among the connected ones l (so: their servers)
SocketsOf(s, l, so) == {c \in l : so[c] = s}

\* mutant: the count is taken before the engine has registered the new transport
clientsCount_Stale(s, l, so) == Cardinality(SocketsOf(s, l, so)) - 1

\* io.engine.clientsCount of server s: its open transport connections
clientsCount(s, l, so) == Cardinality(SocketsOf(s, l, so))

\* mutant: the closed transport is still counted when the disconnect handler runs
EngineClose_Late(c) == live

\* the engine removes a closed transport before the disconnect event is emitted
EngineClose(c) == live \ {c}

\* mutant: the serverInfo emit is left out
IoEmit_Nobody(q, s, l, so, ev, k) == q

\* io.emit(ev) on server s, once per registration (k): every socket of s gets it
IoEmit(q, s, l, so, ev, k) ==
  LET to     == SocketsOf(s, l, so)
      frames == Copies(ev, k)
  IN [d \in ConnIds |-> IF d \in to THEN q[d] \o frames ELSE q[d]]

\* mutant: io.emit in place of socket.broadcast.emit, the sender is a target too
BroadcastTargets_WithSender(c) == SocketsOf(srvOf[c], live, srvOf)

\* socket.broadcast.emit(ev): every socket of c's server except c
BroadcastTargets(c) == SocketsOf(srvOf[c], live, srvOf) \ {c}

\* mutant: the server strips the phone from what it relays
SocketBroadcastEmit_NoPhone(q, c, ev, k) ==
  [d \in ConnIds |-> IF d \in BroadcastTargets(c)
                     THEN q[d] \o Copies([ev EXCEPT !.phone = Absent], k) ELSE q[d]]

\* mutant: the loop over the targets stops at the first one whose client is gone
SocketBroadcastEmit_StopsAtGone(q, c, ev, k) ==
  [d \in ConnIds |-> IF /\ d \in BroadcastTargets(c)
                        /\ \A e \in BroadcastTargets(c) : e < d => gone[e] = {}
                     THEN q[d] \o Copies(ev, k) ELSE q[d]]

\* mutant: a relayed event jumps the queue of frames waiting for the target
SocketBroadcastEmit_Front(q, c, ev, k) ==
  [d \in ConnIds |-> IF d \in BroadcastTargets(c) THEN Copies(ev, k) \o q[d] ELSE q[d]]

SocketBroadcastEmit(q, c, ev, k) ==
  LET to     == BroadcastTargets(c)
      frames == Copies(ev, k)
  IN [d \in ConnIds |-> IF d \in to THEN q[d] \o frames ELSE q[d]]

\* a new socket takes the lowest free slot (slots are interchangeable)
NextSlot == IF live = ConnIds THEN 0 ELSE CHOOSE c \in ConnIds \ live : \A d \in ConnIds \ live : c <= d

\* the phones a new client may use: one already in use, or the first unused
\* one (phones are opaque keys, compared for equality only)
NewPhones ==
  LET used == {phoneOf[d] : d \in live} IN
  used \cup (IF "111" \notin used THEN {"111"} ELSE Phones)

\* a client's transport is accepted by server s; io.on("connection") runs
Connect(c, p, s) ==
  /\ c = NextSlot
  /\ s \in servers
  /\ nConnects < MaxConnects
  /\ nConnects' = nConnects + 1
  /\ live' = live \cup {c}
  /\ srvOf' = [srvOf EXCEPT ![c] = s]
  /\ phoneOf' = [phoneOf EXCEPT ![c] = p]
  /\ listeners' = [listeners EXCEPT ![c] = handlers[s]]
  /\ socketData' = [socketData EXCEPT ![c] = Absent]
  /\ identified' = [identified EXCEPT ![c] = Absent]
  /\ clientConnected' = [clientConnected EXCEPT ![c] = FALSE]
  /\ rx' = [rx EXCEPT ![c] = << >>]
  /\ inq' = [inq EXCEPT ![c] = << >>]
  /\ LET k   == handlers[s]
         via == closureIo[s]
         n   == clientsCount(via, live', srvOf')
     IN /\ outq' = IoEmit([outq EXCEPT ![c] = << ConnectPacket >>],
                          via, live', srvOf', ServerInfo(n), k)
        /\ lastInfo' = IF k > 0 THEN n ELSE lastInfo
  /\ before' = [before EXCEPT ![c] = clientsCount(s, live, srvOf)]
  /\ quiet' = [d \in ConnIds |-> d = c]
  /\ lastClose' = "none"
  /\ UNCHANGED << connectedUsers, nEmits, targets >>
  /\ UNCHANGED << nodeEnv, reloads >>
  /\ UNCHANGED moduleVars

\* the transport of c closes (client cleanup or network loss);
\* socket.on("disconnect") runs
Disconnect(c) ==
  /\ c \in live
  /\ live' = EngineClose(c)
  /\ clientConnected' = [clientConnected EXCEPT ![c] = FALSE]
  /\ socketData' = [socketData EXCEPT ![c] = Absent]
  /\ identified' = [identified EXCEPT ![c] = Absent]
  /\ rx' = [rx EXCEPT ![c] = << >>]
  /\ inq' = [inq EXCEPT ![c] = << >>]
  /\ LET k   == listeners[c]
         via == closureIo[srvOf[c]]
         n   == clientsCount(via, live', srvOf)
     IN /\ outq' = IoEmit([outq EXCEPT ![c] = << >>],
                          via, live' \ {c}, srvOf, ServerInfo(n), k)
        /\ lastInfo' = IF k > 0 THEN n ELSE lastInfo
  /\ targets' = [m \in DOMAIN targets |-> targets[m] \ {c}]
  /\ quiet' = [d \in ConnIds |-> FALSE]
  /\ lastClose' = IF identified[c] = Absent THEN "unidentified" ELSE identified[c]
  \* the socket and the hook instance that owned it are gone
  /\ srvOf' = [srvOf EXCEPT ![c] = NoServer]
  /\ listeners' = [listeners EXCEPT ![c] = 0]
  /\ phoneOf' = [phoneOf EXCEPT ![c] = Absent]
  /\ connectedUsers' = [connectedUsers EXCEPT ![c] = 0]
  /\ before' = [before EXCEPT ![c] = 0]
  /\ UNCHANGED << nConnects, nEmits >>
  /\ UNCHANGED << nodeEnv, reloads >>
  /\ UNCHANGED moduleVars

\* the events the connection callback registers a handler for with socket.on,
\* besides disconnect
HandledEvents == {"message", "typing"}

\* every other connection that is live when the server relays an event of c
OthersLive(c) == live \ {c}

\* the server reads the next event of c and runs the handlers registered for it
Recv(c) ==
  /\ c \in live
  /\ inq[c] # << >>
  /\ LET ev == Head(inq[c]) IN
     /\ inq' = [inq EXCEPT ![c] = Tail(inq[c])]
     /\ CASE ev.type = "message" ->
               /\ outq' = SocketBroadcastEmit(outq, c, ev, listeners[c])
               /\ targets' = [targets EXCEPT ![ev.seq] = OthersLive(c)]
               /\ UNCHANGED identified
          [] ev.type = "typing" ->
               /\ outq' = SocketBroadcastEmit(outq, c, ev, listeners[c])
               /\ targets' = [targets EXCEPT ![ev.seq] = OthersLive(c)]
               /\ UNCHANGED identified
          [] OTHER ->
               \* identify: no socket.on("identify") exists, the event is dropped
               /\ identified' = [identified EXCEPT ![c] =
                                   IF ev.phone # Absent THEN ev.phone ELSE @]
               /\ UNCHANGED << outq, targets >>
  /\ UNCHANGED << live, srvOf, listeners, socketData, phoneOf, clientConnected,
                  connectedUsers, rx, lastInfo, nConnects, nEmits, before, quiet, lastClose >>
  /\ UNCHANGED << nodeEnv, reloads >>
  /\ UNCHANGED moduleVars

\* ------------------------------------------------------- useChat (client)
\* the hook state the socket handlers of client c write; emitted: what they emit
ClientState(c) ==
  [connected |-> clientConnected[c], connectedUsers |-> connectedUsers[c],
   rx |-> rx[c], emitted |-> << >>]

\* the socket.on handlers of connectSocket, applied to one event from the server
OnServerEvent(st, ev, phone) ==
  CASE ev.type = "connect" ->
         \* socket.on("connect"): emit identify { phone }
         [st EXCEPT !.connected = TRUE, !.emitted = Append(@, Identify(phone))]
    [] ev.type = "serverInfo" ->
         \* socket.on("serverInfo"): setConnectedUsers(info.connectedUsers)
         [st EXCEPT !.connectedUsers = ev.connectedUsers]
    [] OTHER ->
         \* socket.on("message") / socket.on("typing")
         [st EXCEPT !.rx = Append(@, ev.seq)]

RECURSIVE Drain(_, _, _)
Drain(st, q, phone) ==
  IF q = << >> THEN st
  ELSE Drain(OnServerEvent(st, Head(q), phone), Tail(q), phone)

\* the client socket of c reads the frames the server sent it, in order
Deliver(c) ==
  /\ c \in live
  /\ outq[c] # << >>
  /\ LET st == Drain(ClientState(c), outq[c], phoneOf[c]) IN
     /\ outq' = [outq EXCEPT ![c] = << >>]
     /\ clientConnected' = [clientConnected EXCEPT ![c] = st.connected]
     /\ connectedUsers' = [connectedUsers EXCEPT ![c] = st.connectedUsers]
     /\ rx' = [rx EXCEPT ![c] = st.rx]
     /\ inq' = [inq EXCEPT ![c] = inq[c] \o st.emitted]
  /\ UNCHANGED << live, srvOf, listeners, socketData, identified, phoneOf,
                  lastInfo, nConnects, nEmits, targets, before, quiet, lastClose >>
  /\ UNCHANGED << nodeEnv, reloads >>
  /\ UNCHANGED moduleVars

\* what a connected client may put on the wire: the events of sendMessage and
\* typing, and events with a required field left out (any Socket.IO client
\* can send them; the handlers read no field, so one missing field stands for any)
ClientEvents(c, seq) ==
  { Message(NameOf(c), phoneOf[c], "hi", seq), Message(NameOf(c), phoneOf[c], Absent, seq),
    Typing(NameOf(c), "true", seq), Typing(NameOf(c), Absent, seq),
    Identify(Absent) }

ClientEmit(c, ev) ==
  /\ c \in live
  /\ clientConnected[c]
  /\ nEmits < MaxEmits
  /\ nEmits' = nEmits + 1
  /\ inq' = [inq EXCEPT ![c] = Append(inq[c], ev)]
  /\ UNCHANGED << live, srvOf, listeners, socketData, identified, phoneOf,
                  clientConnected, connectedUsers, rx, outq, lastInfo, nConnects,
                  targets, before, quiet, lastClose >>
  /\ UNCHANGED << nodeEnv, reloads >>
  /\ UNCHANGED moduleVars

\* ------------------------------------------ useChat: sendMessage and typing
\* what a user may submit as a message: a text, or only white space
Contents == {"hi", " "}

\* mutant: the content is not looked at
IsBlank_Never(content) == FALSE

\* !content.trim(): nothing is left of the content once it is trimmed
IsBlank(content) == content \in {Absent, " "}

\* the values of the typing flag, as they appear in the payload
TypingFlags == {"true", "false"}

\* mutant: the event never leaves the client
SocketEmit_Lost(q, c, ev) == q

\* s.emit(event, payload) on the socket of client c
SocketEmit(q, c, ev) == [q EXCEPT ![c] = Append(q[c], ev)]

\* an entry of the messages list (SignalMessage); seq tells the entries of
\* one send apart, as id and timestamp do in the source
Entry(name, phone, content, seq) ==
  [name |-> name, phone |-> phone, content |-> content, seq |-> seq]

\* the name sendMessage gives the local copy of a message
OwnName == "You"

\* newMsg of sendMessage for the payload ev
NewMsg(ev) == Entry(OwnName, ev.phone, ev.content, ev.seq)

\* the two early returns of sendMessage: identity or content missing, socket
\* absent or disconnected (a client that is gone has socket.disconnected)
SendReturnsEarly(c, content) ==
  \/ NameOf(c) = Absent \/ phoneOf[c] = Absent \/ IsBlank(content)
  \/ c \notin live \/ ~clientConnected[c] \/ gone[c] # {}

\* sendMessage(content) of client c: the guards, the optimistic add, the
\* emit, then the POST. All run in one tick, in this order; when the
\* response arrives the hook only logs (debug, or error if it is not ok)
sendMessage(c, content) ==
  /\ NameOf(c) # Absent /\ phoneOf[c] # Absent /\ ~IsBlank(content)
  /\ c \in live /\ clientConnected[c] /\ gone[c] = {}
  /\ nEmits < MaxSends
  /\ nEmits' = nEmits + 1
  /\ lastCall' = [by |-> c, content |-> content]
  /\ LET ev == Message(NameOf(c), phoneOf[c], content, nEmits') IN
     /\ messages' = [messages EXCEPT ![c] = Append(@, NewMsg(ev))]
     /\ inq' = SocketEmit(inq, c, ev)
     /\ sent' = [sent EXCEPT ![nEmits'] = ev]
  /\ posts' = [posts EXCEPT ![nEmits'] = "pending"]
  /\ UNCHANGED << live, srvOf, listeners, socketData, identified, phoneOf,
                  clientConnected, connectedUsers, rx, outq, lastInfo, nConnects,
                  targets, before, quiet, lastClose >>
  /\ UNCHANGED << nodeEnv, reloads >>
  /\ UNCHANGED moduleVars
  /\ UNCHANGED << storeVars, gone, userVars >>
  /\ UNCHANGED << socketRoute, typingUser, loads, effects, socketRef >>

\* a call of sendMessage that returns early: nothing but the call happened
sendMessageReturns(c, content) ==
  /\ SendReturnsEarly(c, content)
  /\ lastCall' = [by |-> c, content |-> content]
  /\ UNCHANGED << nodeEnv, reloads >>
  /\ UNCHANGED moduleVars
  /\ UNCHANGED connVars
  /\ UNCHANGED << chatVars, storeVars, gone, userVars >>
  /\ UNCHANGED << socketRoute, messages, typingUser, loads, effects, socketRef >>

\* typing(isTyping) of client c: the guards and the emit; no request is made
typing(c, isTyping) ==
  /\ c \in live /\ clientConnected[c] /\ gone[c] = {}
  /\ NameOf(c) # Absent
  /\ nEmits < MaxSends
  /\ nEmits' = nEmits + 1
  /\ LET ev == Typing(NameOf(c), isTyping, nEmits') IN
     /\ inq' = SocketEmit(inq, c, ev)
     /\ sent' = [sent EXCEPT ![nEmits'] = ev]
  /\ UNCHANGED << live, srvOf, listeners, socketData, identified, phoneOf,
                  clientConnected, connectedUsers, rx, outq, lastInfo, nConnects,
                  targets, before, quiet, lastClose >>
  /\ UNCHANGED << nodeEnv, reloads >>
  /\ UNCHANGED moduleVars
  /\ UNCHANGED << posts, storeVars, gone, userVars >>
  /\ UNCHANGED clientVars

\* what sendMessage may be called with: a text, white space, nothing
CallContents == Contents \cup {Absent}

\* handleSend of ChatInput: if (!content.trim()) return; onSend(content),
\* onSend being sendMessage
handleSend(c, content) ==
  /\ ~IsBlank(content)
  /\ (sendMessage(c, content) \/ sendMessageReturns(c, content))

\* ------------------------------------------- how a connection comes to end
\* the ways the client side of a connection ends: the effect cleanup of
\* useChat (removeAllListeners, disconnect) and the loss of the transport
ClosePaths == {"cleanup", "loss"}

\* the client side of c ends by path; the server has not noticed yet. From
\* then on the client handles no frame and emits nothing
ClientEnds(c, path) ==
  /\ c \in live
  /\ path \notin gone[c]
  /\ gone' = [gone EXCEPT ![c] = gone[c] \cup {path}]
  /\ clientConnected' = [clientConnected EXCEPT ![c] = FALSE]
  /\ UNCHANGED << live, srvOf, listeners, socketData, identified, phoneOf,
                  connectedUsers, rx, inq, outq, lastInfo, nConnects, nEmits,
                  targets, before, quiet, lastClose >>
  /\ UNCHANGED << nodeEnv, reloads >>
  /\ UNCHANGED moduleVars
  /\ UNCHANGED << chatVars, storeVars, userVars >>
  /\ UNCHANGED clientVars

\* ------------------------------------------------------- /api/messages
\* the body of the POST sendMessage issues for event ev: { name, phone, content }
\* (seq is not a field of the body: it tells which send a row came from)
PostBody(ev) ==
  [name |-> ev.name, phone |-> ev.phone, content |-> ev.content, seq |-> ev.seq]

\* the row prisma.message.create inserts; timestamp defaults to the time of insertion
NewRow(table, body) ==
  [name |-> body.name, phone |-> body.phone, content |-> body.content,
   seq |-> body.seq, timestamp |-> Len(table) + 1]

\* POST /api/messages: the status answered and the table afterwards
\* (dbOk: prisma.message.create did not throw)
PostMessages(table, body, dbOk) ==
  IF body.name = Absent \/ body.phone = Absent \/ body.content = Absent
  THEN [status |-> "400", table |-> table]
  ELSE IF dbOk
       THEN [status |-> "200", table |-> Append(table, NewRow(table, body))]
       ELSE [status |-> "500", table |-> table]

\* the route handles the POST that sendMessage issued for event m
ApiMessagesPost(m, dbOk) ==
  /\ posts[m] = "pending"
  /\ LET r == PostMessages(messageTable, PostBody(sent[m]), dbOk) IN
     /\ posts' = [posts EXCEPT ![m] = r.status]
     /\ messageTable' = r.table
  /\ UNCHANGED << nodeEnv, reloads, sent, history, gone >>
  /\ UNCHANGED moduleVars
  /\ UNCHANGED connVars
  /\ UNCHANGED userVars
  /\ UNCHANGED clientVars

\* take: 50 of the findMany in GET /api/messages
TakeLimit == 50

\* the bodies any HTTP client may POST to /api/messages
PostBodies ==
  { [name |-> "A", phone |-> "111", content |-> "hi", seq |-> 0],
    [name |-> "A", phone |-> "111", content |-> Absent, seq |-> 0] }

\* POST /api/messages by any client (not through sendMessage)
ApiMessagesPostDirect(body, dbOk) ==
  /\ Len(messageTable) < MaxStored
  /\ messageTable' = PostMessages(messageTable, body, dbOk).table
  /\ UNCHANGED << nodeEnv, reloads, history, gone >>
  /\ UNCHANGED moduleVars
  /\ UNCHANGED connVars
  /\ UNCHANGED << chatVars, userVars >>
  /\ UNCHANGED clientVars

\* orderBy: { timestamp: "asc" }
OrderByTimestampAsc(rows) == SortSeq(rows, LAMBDA a, b : a.timestamp < b.timestamp)

\* findMany({ orderBy: { timestamp: "asc" }, take: 50 })
FindMany(table) ==
  LET sorted == OrderByTimestampAsc(table)
  IN SubSeq(sorted, 1, IF Len(sorted) < TakeLimit THEN Len(sorted) ELSE TakeLimit)

\* no GET /api/messages was answered yet (of: the rows stored when it was)
NoHistory == [status |-> "none", body |-> << >>, of |-> 0]

\* the response of GET /api/messages (dbOk: findMany did not throw)
GetMessages(dbOk) ==
  IF dbOk
  THEN [status |-> "200", body |-> FindMany(messageTable), of |-> Len(messageTable)]
  ELSE [status |-> "500", body |-> << >>, of |-> Len(messageTable)]

\* GET /api/messages by any client
ApiMessagesGet(dbOk) ==
  /\ history' = GetMessages(dbOk)
  /\ UNCHANGED << nodeEnv, reloads, messageTable, gone >>
  /\ UNCHANGED moduleVars
  /\ UNCHANGED connVars
  /\ UNCHANGED << chatVars, userVars >>
  /\ UNCHANGED clientVars

\* ------------------------------------------- useChat: the socket handlers
\* sendMessage was not called yet
NoCall == [by |-> 0, content |-> Absent]

\* loadMessages is not running. pc: "pending" once the GET is issued,
\* "answered" while the response is on its way to the client
NoLoad == [pc |-> "none", status |-> "none", body |-> << >>]

\* the hook state of client c that the handlers write besides the socket's
HookState(c) ==
  [messages |-> messages[c], typingUser |-> typingUser[c], load |-> loads[c]]

\* mutant: nothing is taken for an echo
IsEcho_Never(ev, phone) == FALSE

\* if (msg.phone === phone) return
IsEcho(ev, phone) == ev.phone = phone

\* mutant: a stop clears the indicator only if it comes from the user shown
TypingUserAfter_SameUser(prev, ev) ==
  IF ev.typing = "true" THEN ev.name ELSE IF prev = ev.name THEN Absent ELSE prev

\* setTypingUser(typing ? name : null), null being Absent
TypingUserAfter(prev, ev) == IF ev.typing = "true" THEN ev.name ELSE Absent

\* the handlers of connectSocket that write React state, applied to one event
OnHookEvent(h, ev, phone) ==
  CASE ev.type = "connect" ->
         \* socket.on("connect"): loadMessages()
         [h EXCEPT !.load = [NoLoad EXCEPT !.pc = "pending"]]
    [] ev.type = "message" ->
         IF IsEcho(ev, phone) THEN h
         ELSE [h EXCEPT !.messages = Append(@, Entry(ev.name, ev.phone, ev.content, ev.seq))]
    [] ev.type = "typing" ->
         [h EXCEPT !.typingUser = TypingUserAfter(@, ev)]
    [] OTHER -> h

RECURSIVE DrainHook(_, _, _)
DrainHook(h, q, phone) ==
  IF q = << >> THEN h
  ELSE DrainHook(OnHookEvent(h, Head(q), phone), Tail(q), phone)

\* client c, a useChat hook, reads the frames the server sent it: the
\* handlers write the socket's state (Deliver) and the React state
HookDeliver(c) ==
  /\ Deliver(c)
  /\ gone[c] = {}
  /\ LET h == DrainHook(HookState(c), outq[c], phoneOf[c]) IN
     /\ messages' = [messages EXCEPT ![c] = h.messages]
     /\ typingUser' = [typingUser EXCEPT ![c] = h.typingUser]
     /\ loads' = [loads EXCEPT ![c] = h.load]
  /\ UNCHANGED << chatVars, storeVars, gone, userVars >>
  /\ UNCHANGED << socketRoute, lastCall, effects, socketRef >>

\* ------------------------------------------------- useChat: loadMessages
\* the message a row of table Message is in the response body
RowEntry(row) == Entry(row.name, row.phone, row.content, row.seq)

\* GET /api/messages is served for the loadMessages call of client c
LoadServed(c, dbOk) ==
  /\ loads[c].pc = "pending"
  /\ history' = GetMessages(dbOk)
  /\ loads' = [loads EXCEPT ![c] =
                 [pc |-> "answered", status |-> history'.status, body |-> history'.body]]
  /\ UNCHANGED << nodeEnv, reloads, messageTable, gone >>
  /\ UNCHANGED moduleVars
  /\ UNCHANGED connVars
  /\ UNCHANGED << chatVars, userVars >>
  /\ UNCHANGED << socketRoute, messages, typingUser, lastCall, effects, socketRef >>

\* the list the hook holds after a response: setMessages(data) when the
\* response is ok, otherwise the catch logs and the list stays
MessagesAfterLoad(list, load) ==
  IF load.status = "200" THEN [i \in DOMAIN load.body |-> RowEntry(load.body[i])]
  ELSE list

\* the response reaches loadMessages of client c
LoadReturns(c) ==
  /\ loads[c].pc = "answered"
  /\ messages' = [messages EXCEPT ![c] = MessagesAfterLoad(@, loads[c])]
  /\ loads' = [loads EXCEPT ![c] = NoLoad]
  /\ UNCHANGED << nodeEnv, reloads >>
  /\ UNCHANGED moduleVars
  /\ UNCHANGED connVars
  /\ UNCHANGED << chatVars, storeVars, gone, userVars >>
  /\ UNCHANGED << socketRoute, typingUser, lastCall, effects, socketRef >>

\* isOwn of ChatMessages: the entry is drawn as the local user's
isOwn(msg) == msg.name = OwnName

\* ------------------------------------------------------------- lib/utils
\* strings of the request body are sequences of characters; a field the JSON
\* body does not have is undefined
Missing == << "undefined" >>

Whitespace == {" "}
Digits == {"0", "1", "2", "3", "4", "5", "6", "7", "8", "9"}

RECURSIVE TrimStart(_)
TrimStart(str) ==
  IF str # << >> /\ Head(str) \in Whitespace THEN TrimStart(Tail(str)) ELSE str

RECURSIVE TrimEnd(_)
TrimEnd(str) ==
  IF str # << >> /\ str[Len(str)] \in Whitespace
  THEN TrimEnd(SubSeq(str, 1, Len(str) - 1)) ELSE str

\* String.prototype.trim
Trim(str) == TrimEnd(TrimStart(str))

MinNameLen  == 2
MaxNameLen  == 40
MinPhoneLen == 8
MaxPhoneLen == 20

\* isValidName: if (!name) return false; trimmed length within 2..40
isValidName(name) ==
  IF name = Missing \/ name = << >> THEN FALSE
  ELSE Len(Trim(name)) >= MinNameLen /\ Len(Trim(name)) <= MaxNameLen

\* phone.trim() of isValidPhone throws a TypeError when phone is undefined
TrimThrows(phone) == phone = Missing

\* isValidPhone: /^[+]?[\d\s]{8,20}$/ tested on the trimmed phone
isValidPhone(phone) ==
  LET t == Trim(phone)
      b == IF t # << >> /\ Head(t) = "+" THEN Tail(t) ELSE t
  IN /\ Len(b) >= MinPhoneLen /\ Len(b) <= MaxPhoneLen
     /\ \A i \in DOMAIN b : b[i] \in Digits \cup Whitespace

\* ----------------------------------------------------- POST /api/users
\* the names and phones of the request bodies
Names ==
  { << "A", "l" >>, << " ", "A", " " >>, [i \in 1..(MaxNameLen + 1) |-> "x"], Missing }

UserPhones ==
  { << "1", "2", "3", "4", "5", "6", "7", "8" >>,
    << "+", "1", "2", "3", "4", " ", "5", "6", "7", "8" >>,
    << "1", "2", "3", "4", "5", "6", "7" >>, Missing }

\* a request slot that was not used. pc: where the handler stands; status:
\* the status answered; user: id of the User in the response body; cause:
\* what threw, if anything did
NoRequest ==
  [pc |-> "idle", name |-> Missing, phone |-> Missing, status |-> 0, user |-> 0,
   cause |-> "none"]

\* requests are numbered in the order they arrive
NextRequest ==
  IF \A r \in 1..MaxReqs : userReqs[r].pc # "idle" THEN 0
  ELSE CHOOSE r \in 1..MaxReqs :
         userReqs[r].pc = "idle" /\ \A q \in 1..(r - 1) : userReqs[q].pc # "idle"

\* the validation of the handler: "400", "throws" (caught: 500) or "ok"
Validate(name, phone) ==
  IF ~isValidName(name) THEN "400"
  ELSE IF TrimThrows(phone) THEN "throws"
  ELSE IF ~isValidPhone(phone) THEN "400"
  ELSE "ok"

\* the rows of table User with the given phone (prisma.user.findUnique)
FindUnique(table, phone) == {u \in table : u.phone = phone}

\* POST /api/users arrives: the body is read and validated, then findUnique
\* is awaited
UsersPost(r, name, phone) ==
  /\ r = NextRequest
  /\ LET v == Validate(name, phone)
         q == [userReqs[r] EXCEPT !.name = name, !.phone = phone]
     IN userReqs' = [userReqs EXCEPT ![r] =
          CASE v = "400" -> [q EXCEPT !.pc = "done", !.status = 400]
            [] v = "throws" -> [q EXCEPT !.pc = "done", !.status = 500, !.cause = "TypeError"]
            [] OTHER -> [q EXCEPT !.pc = "find"]]
  /\ UNCHANGED << userTable, chatVars, storeVars, gone >>
  /\ UNCHANGED clientVars
  /\ UNCHANGED << nodeEnv, reloads >>
  /\ UNCHANGED moduleVars
  /\ UNCHANGED connVars

\* findUnique answers (dbOk: it did not throw): an existing user is returned
\* with the default status 200, otherwise create is awaited
UsersFind(r, dbOk) ==
  /\ userReqs[r].pc = "find"
  /\ LET q == userReqs[r]
         found == FindUnique(userTable, q.phone)
     IN userReqs' = [userReqs EXCEPT ![r] =
          IF ~dbOk THEN [q EXCEPT !.pc = "done", !.status = 500, !.cause = "store"]
          ELSE IF found # {}
               THEN [q EXCEPT !.pc = "done", !.status = 200,
                              !.user = (CHOOSE u \in found : TRUE).id]
               ELSE [q EXCEPT !.pc = "create"]]
  /\ UNCHANGED << userTable, chatVars, storeVars, gone >>
  /\ UNCHANGED clientVars
  /\ UNCHANGED << nodeEnv, reloads >>
  /\ UNCHANGED moduleVars
  /\ UNCHANGED connVars

\* create answers: the unique index User_phone_key rejects a second row with
\* the phone (the handler catches and answers 500), otherwise the row is
\* inserted and returned with 201
UsersCreate(r, dbOk) ==
  /\ userReqs[r].pc = "create"
  /\ LET q == userReqs[r]
         id == Cardinality(userTable) + 1
     IN IF ~dbOk
        THEN /\ userReqs' = [userReqs EXCEPT ![r] =
                  [q EXCEPT !.pc = "done", !.status = 500, !.cause = "store"]]
             /\ UNCHANGED userTable
        ELSE IF FindUnique(userTable, q.phone) # {}
        THEN /\ userReqs' = [userReqs EXCEPT ![r] =
                  [q EXCEPT !.pc = "done", !.status = 500, !.cause = "unique"]]
             /\ UNCHANGED userTable
        ELSE /\ userReqs' = [userReqs EXCEPT ![r] =
                  [q EXCEPT !.pc = "done", !.status = 201, !.user = id]]
             /\ userTable' = userTable \cup {[id |-> id, name |-> q.name, phone |-> q.phone]}
  /\ UNCHANGED << chatVars, storeVars, gone >>
  /\ UNCHANGED clientVars
  /\ UNCHANGED << nodeEnv, reloads >>
  /\ UNCHANGED moduleVars
  /\ UNCHANGED connVars

\* ------------------------------------------- GET /api/socket: the response
\* no request was answered yet. status: the status of the last response;
\* errors: the logger.error calls of the catch block
NoResponse == [status |-> 0, errors |-> 0]

\* the methods of the requests
Methods == {"GET", "POST"}

\* the transport handle of a request: fine; res.socket is undefined, so
\* res.socket.server throws in the handler; the HTTP server cannot take a
\* Socket.IO server, so new IOServer(server, ...) throws
Handles == {"ok", "noSocket", "unusable"}

\* mutant: the failure comes after the assignment to io and the setting of
\* isInitialized, before io.on
initSocketThrows_AfterAssign ==
  LET n == NewServerId IN
  /\ servers' = servers \cup {n}
  /\ io' = n
  /\ isInitialized' = TRUE
  /\ handlers' = [s \in servers' |-> IF s = n THEN 0 ELSE handlers[s]]
  /\ closureIo' = [s \in servers' |-> IF s = n THEN n ELSE closureIo[s]]
  /\ UNCHANGED << globalIO, returned >>

\* the call throws while its argument or new IOServer(...) is evaluated: the
\* assignment to io, the flag and the registration are not reached
initSocketThrows == UNCHANGED moduleVars

\* the handle makes this request throw: res.socket.server is evaluated
\* whenever res.socket?.server?.io is falsy, new IOServer only past step 1
Throws(handle) == handle = "noSocket" \/ (handle = "unusable" /\ ~ReuseExisting)

\* the handler of /api/socket for one request, with its response
SocketRoute(method, handle) ==
  /\ CASE method # "GET" ->
            /\ socketRoute' = [socketRoute EXCEPT !.status = 405]
            /\ UNCHANGED moduleVars
            /\ UNCHANGED << nodeEnv, reloads >>
            /\ UNCHANGED connVars
       [] method = "GET" /\ Throws(handle) ->
            /\ socketRoute.errors < MaxFailures
            /\ initSocketThrows
            /\ socketRoute' = [status |-> 500, errors |-> socketRoute.errors + 1]
            /\ UNCHANGED << nodeEnv, reloads >>
            /\ UNCHANGED connVars
       [] OTHER ->
            /\ ApiSocket(method)
            /\ socketRoute' = [socketRoute EXCEPT !.status = 200]

\* one request to /api/socket by any client
ApiSocketRequest(method, handle) ==
  /\ SocketRoute(method, handle)
  /\ UNCHANGED << chatVars, storeVars, gone, userVars, hookVars, effectVars >>

\* ---------------------------------------------------- useChat: the effect
\* socketRef.current is null
NoSocket == 0

\* an effect run that has not started. pc: "fetch" while connectSocket awaits
\* the warm-up fetch, "done" after it, "skipped" if the guard returned;
\* cleaned: the cleanup of the run has run; sock: the socket the run created
\* ("none", "opening", "open", "closed"); slot: its connection on the server
NoEffect == [pc |-> "idle", cleaned |-> FALSE, sock |-> "none", slot |-> 0]

\* the phone of the ChatRoom
RoomPhone == "111"

\* runs start in order
NextRun ==
  IF \A e \in 1..MaxRuns : effects[e].pc # "idle" THEN 0
  ELSE CHOOSE e \in 1..MaxRuns :
         effects[e].pc = "idle" /\ \A d \in 1..(e - 1) : effects[d].pc # "idle"

\* the effect runs (mount, or name / phone changed): the guard, then
\* connectSocket() is called and awaits fetch("/api/socket"). React runs the
\* cleanup of the previous run first
EffectRuns(e, identity) ==
  /\ e = NextRun
  /\ IF e = 1 THEN TRUE ELSE effects[e - 1].cleaned
  /\ effects' = [effects EXCEPT ![e] =
                   IF identity THEN [@ EXCEPT !.pc = "fetch"]
                   ELSE [@ EXCEPT !.pc = "skipped", !.cleaned = TRUE]]
  /\ UNCHANGED << nodeEnv, reloads, socketRef, socketRoute >>
  /\ UNCHANGED moduleVars
  /\ UNCHANGED connVars
  /\ UNCHANGED << chatVars, storeVars, gone, userVars, hookVars >>

\* the warm-up fetch of run e is answered and connectSocket goes on: it
\* returns if the response is not ok, otherwise io(...) creates the socket,
\* which starts to connect, and socketRef.current = socket
WarmUpReturns(e, handle) ==
  /\ effects[e].pc = "fetch"
  /\ SocketRoute("GET", handle)
  /\ IF socketRoute'.status = 200
     THEN /\ effects' = [effects EXCEPT ![e] = [@ EXCEPT !.pc = "done", !.sock = "opening"]]
          /\ socketRef' = e
     ELSE /\ effects' = [effects EXCEPT ![e] = [@ EXCEPT !.pc = "done"]]
          /\ UNCHANGED socketRef
  /\ UNCHANGED << chatVars, storeVars, gone, userVars, hookVars >>

\* the server accepts the transport of the socket of run e
Accept(e) ==
  /\ effects[e].sock = "opening"
  /\ NextSlot # 0
  /\ \E s \in servers : Connect(NextSlot, RoomPhone, s)
  /\ effects' = [effects EXCEPT ![e] = [@ EXCEPT !.sock = "open", !.slot = NextSlot]]
  /\ gone' = [gone EXCEPT ![NextSlot] = {}]
  /\ UNCHANGED << chatVars, storeVars, userVars, hookVars, socketRef, socketRoute >>

\* the socket that socketRef.current holds after s.disconnect()
Closed(run) == [run EXCEPT !.sock = "closed"]

\* the cleanup of run e (unmount, or name / phone changed): if
\* socketRef.current holds a socket, removeAllListeners, disconnect, and
\* socketRef.current = null
Cleanup(e) ==
  /\ effects[e].pc \in {"fetch", "done"}
  /\ ~effects[e].cleaned
  /\ LET s == socketRef
         c == IF s = NoSocket THEN 0 ELSE effects[s].slot
     IN /\ effects' = [d \in 1..MaxRuns |->
                         LET run == IF d = s THEN Closed(effects[d]) ELSE effects[d]
                         IN IF d = e THEN [run EXCEPT !.cleaned = TRUE] ELSE run]
        /\ socketRef' = NoSocket
        /\ gone' = [d \in ConnIds |->
                      IF d = c /\ effects[s].sock = "open" THEN gone[d] \cup {"cleanup"}
                      ELSE gone[d]]
        /\ clientConnected' = [d \in ConnIds |->
                      IF d = c /\ effects[s].sock = "open" THEN FALSE
                      ELSE clientConnected[d]]
  /\ UNCHANGED << live, srvOf, listeners, socketData, identified, phoneOf,
                  connectedUsers, rx, inq, outq, lastInfo, nConnects, nEmits,
                  targets, before, quiet, lastClose >>
  /\ UNCHANGED << nodeEnv, reloads, socketRoute >>
  /\ UNCHANGED moduleVars
  /\ UNCHANGED << chatVars, storeVars, userVars, hookVars >>

\* ------------------------------------------------------------ specification
\* nothing was sent, posted or stored, and nobody has registered
InitRest ==
  /\ sent = [m \in 1..MaxSends |-> NoEvent]
  /\ posts = [m \in 1..MaxSends |-> "none"]
  /\ messageTable = << >>
  /\ history = NoHistory
  /\ gone = [c \in ConnIds |-> {}]
  /\ userTable = {}
  /\ userReqs = [r \in 1..MaxReqs |-> NoRequest]
  /\ socketRoute = NoResponse
  /\ messages = [c \in ConnIds |-> << >>]
  /\ typingUser = [c \in ConnIds |-> Absent]
  /\ loads = [c \in ConnIds |-> NoLoad]
  /\ lastCall = NoCall
  /\ effects = [e \in 1..MaxRuns |-> NoEffect]
  /\ socketRef = NoSocket

InitIn(env) ==
  /\ nodeEnv = env
  /\ io = NoServer
  /\ isInitialized = FALSE
  /\ globalIO = NoServer
  /\ servers = {}
  /\ handlers = [s \in {} |-> 0]
  /\ closureIo = [s \in {} |-> NoServer]
  /\ returned = NoServer
  /\ reloads = 0
  /\ live = {}
  /\ srvOf = [c \in ConnIds |-> NoServer]
  /\ listeners = [c \in ConnIds |-> 0]
  /\ socketData = [c \in ConnIds |-> Absent]
  /\ identified = [c \in ConnIds |-> Absent]
  /\ phoneOf = [c \in ConnIds |-> Absent]
  /\ clientConnected = [c \in ConnIds |-> FALSE]
  /\ connectedUsers = [c \in ConnIds |-> 0]
  /\ rx = [c \in ConnIds |-> << >>]
  /\ inq = [c \in ConnIds |-> << >>]
  /\ outq = [c \in ConnIds |-> << >>]
  /\ lastInfo = 0
  /\ nConnects = 0
  /\ nEmits = 0
  /\ targets = [m \in 1..MaxEmits |-> {}]
  /\ before = [c \in ConnIds |-> 0]
  /\ quiet = [c \in ConnIds |-> FALSE]
  /\ lastClose = "none"
  /\ InitRest

\* a production process: the socket module is evaluated once
Init == InitIn("production")

Next ==
  \/ ApiSocket("GET") /\ UNCHANGED restVars
  \/ /\ nConnects < MaxConnects
     /\ \E c \in ConnIds \cap {NextSlot}, p \in NewPhones, s \in servers :
          Connect(c, p, s) /\ UNCHANGED restVars
  \/ \E c \in live : Disconnect(c) /\ UNCHANGED restVars
  \/ \E c \in live : Recv(c) /\ UNCHANGED restVars
  \/ \E c \in live : Deliver(c) /\ UNCHANGED restVars
  \/ /\ nEmits < MaxEmits
     /\ \E c \in live : \E ev \in ClientEvents(c, nEmits + 1) :
          ClientEmit(c, ev) /\ UNCHANGED restVars

Spec == Init /\ [][Next]_vars

\* a development process: Next.js may re-evaluate the socket module at any time
InitDev == InitIn("development")

NextReload == Next \/ (HotReload /\ UNCHANGED restVars)

SpecReload == InitDev /\ [][NextReload]_vars

\* the phones of the clients of a chat among k users
OpenPhones(k) ==
  [c \in ConnIds |-> IF c > k THEN Absent ELSE IF c = 1 THEN "111" ELSE "222"]

\* a chat in progress: GET /api/socket was served and the clients of slots
\* 1..k, whose phones are f, have connected, identified and read their
\* serverInfo frames
InitOpenAs(k, f) ==
  /\ nodeEnv = "production"
  /\ io = 1 /\ isInitialized = TRUE /\ globalIO = NoServer
  /\ servers = {1}
  /\ handlers = [s \in {1} |-> 1]
  /\ closureIo = [s \in {1} |-> 1]
  /\ returned = 1
  /\ reloads = 0
  /\ live = 1..k
  /\ srvOf = [c \in ConnIds |-> IF c <= k THEN 1 ELSE NoServer]
  /\ listeners = [c \in ConnIds |-> IF c <= k THEN 1 ELSE 0]
  /\ socketData = [c \in ConnIds |-> Absent]
  /\ phoneOf = f
  /\ identified = phoneOf
  /\ clientConnected = [c \in ConnIds |-> c <= k]
  /\ connectedUsers = [c \in ConnIds |-> IF c <= k THEN k ELSE 0]
  /\ rx = [c \in ConnIds |-> << >>]
  /\ inq = [c \in ConnIds |-> << >>]
  /\ outq = [c \in ConnIds |-> << >>]
  /\ lastInfo = k
  /\ nConnects = k
  /\ nEmits = 0
  /\ targets = [m \in 1..MaxSends |-> {}]
  /\ before = [c \in ConnIds |-> IF c <= k THEN c - 1 ELSE 0]
  /\ quiet = [c \in ConnIds |-> c = k]
  /\ lastClose = "none"
  /\ InitRest

InitOpen(k) == InitOpenAs(k, OpenPhones(k))

\* a chat among as many connections as one run of Spec accepts
InitChat == InitOpen(MaxConnects)

\* a chat in which every slot holds a connection
InitLoss == InitOpen(MaxConns)

NextChat ==
  \/ \E c \in ConnIds, content \in Contents : sendMessage(c, content)
  \/ \E c \in ConnIds, f \in TypingFlags : typing(c, f)
  \/ \E c \in ConnIds : Recv(c) /\ UNCHANGED restVars
  \/ \E c \in ConnIds : HookDeliver(c)
  \/ \E m \in 1..MaxSends, dbOk \in BOOLEAN : ApiMessagesPost(m, dbOk)

SpecChat == InitChat /\ [][NextChat]_vars

\* the relay with connections that end on the client side first: the server
\* closes a connection (disconnect packet, transport close or ping timeout)
\* some time after its client is gone, and relays to it until then
NextClose ==
  \/ ApiSocket("GET") /\ UNCHANGED restVars
  \/ \E c \in ConnIds, p \in NewPhones, s \in servers :
       Connect(c, p, s) /\ gone' = [gone EXCEPT ![c] = {}]
                        /\ UNCHANGED << chatVars, storeVars, userVars >>
                        /\ UNCHANGED clientVars
  \/ \E c \in ConnIds, path \in ClosePaths : ClientEnds(c, path)
  \/ \E c \in ConnIds : gone[c] # {} /\ Disconnect(c) /\ UNCHANGED restVars
  \/ \E c \in ConnIds : Recv(c) /\ UNCHANGED restVars
  \/ \E c \in ConnIds : gone[c] = {} /\ Deliver(c) /\ UNCHANGED restVars

SpecClose == Init /\ [][NextClose]_vars

\* a chat in progress in which clients drop out: events are relayed while
\* some targets are gone already and the server has not closed them yet
NextLoss ==
  \/ \E c \in ConnIds : ClientEnds(c, "loss")
  \/ \E c \in ConnIds : gone[c] # {} /\ Disconnect(c) /\ UNCHANGED restVars
  \/ \E c \in ConnIds : Recv(c) /\ UNCHANGED restVars
  \/ \E c \in ConnIds : gone[c] = {} /\ Deliver(c) /\ UNCHANGED restVars
  \/ \E c \in ConnIds :
       gone[c] = {} /\ ClientEmit(c, Typing(NameOf(c), "true", nEmits + 1))
                   /\ UNCHANGED restVars

SpecLoss == InitLoss /\ [][NextLoss]_vars

\* the registration route on its own: requests arrive one after another and
\* their handlers interleave at each await
NextUsers ==
  \/ \E r \in 1..MaxReqs, name \in Names, phone \in UserPhones : UsersPost(r, name, phone)
  \/ \E r \in 1..MaxReqs, dbOk \in BOOLEAN : UsersFind(r, dbOk)
  \/ \E r \in 1..MaxReqs, dbOk \in BOOLEAN : UsersCreate(r, dbOk)

SpecUsers == Init /\ [][NextUsers]_vars

\* the message routes on their own: rows are added and the history is read
NextHistory ==
  \/ \E body \in PostBodies, dbOk \in BOOLEAN : ApiMessagesPostDirect(body, dbOk)
  \/ \E dbOk \in BOOLEAN : ApiMessagesGet(dbOk)

SpecHistory == Init /\ [][NextHistory]_vars

\* the phones of k clients: the first has "111", each other one any phone
PhonesOf(k) ==
  { f \in [ConnIds -> Phones \cup {Absent}] :
      \A c \in ConnIds : IF c > k THEN f[c] = Absent
                          ELSE IF c = 1 THEN f[c] = "111" ELSE f[c] # Absent }

\* the frames the server has sent connection c when k connections were
\* accepted in the order of their slots: its connect packet, then one
\* serverInfo per connection accepted since
JoinFrames(c, k) ==
  IF c > k THEN << >>
  ELSE << ConnectPacket >> \o [i \in 1..(k - c + 1) |-> ServerInfo(c + i - 1)]

\* k useChat clients have just joined: GET /api/socket was served and the
\* server has accepted their sockets; no client has read a frame yet
InitJoined(k) ==
  /\ nodeEnv = "production"
  /\ io = 1 /\ isInitialized = TRUE /\ globalIO = NoServer
  /\ servers = {1}
  /\ handlers = [s \in {1} |-> 1]
  /\ closureIo = [s \in {1} |-> 1]
  /\ returned = 1
  /\ reloads = 0
  /\ live = 1..k
  /\ srvOf = [c \in ConnIds |-> IF c <= k THEN 1 ELSE NoServer]
  /\ listeners = [c \in ConnIds |-> IF c <= k THEN 1 ELSE 0]
  /\ socketData = [c \in ConnIds |-> Absent]
  /\ phoneOf \in PhonesOf(k)
  /\ identified = [c \in ConnIds |-> Absent]
  /\ clientConnected = [c \in ConnIds |-> FALSE]
  /\ connectedUsers = [c \in ConnIds |-> 0]
  /\ rx = [c \in ConnIds |-> << >>]
  /\ inq = [c \in ConnIds |-> << >>]
  /\ outq = [c \in ConnIds |-> JoinFrames(c, k)]
  /\ lastInfo = k
  /\ nConnects = k
  /\ nEmits = 0
  /\ targets = [m \in 1..MaxSends |-> {}]
  /\ before = [c \in ConnIds |-> IF c <= k THEN c - 1 ELSE 0]
  /\ quiet = [c \in ConnIds |-> c = k]
  /\ lastClose = "none"
  /\ InitRest

InitHook == InitJoined(MaxConnects)

\* useChat clients from the moment they join: the history load of the
\* connect handler runs while messages are sent, relayed and stored
NextHook ==
  \/ \E c \in ConnIds : sendMessage(c, "hi")
  \/ \E c \in ConnIds : Recv(c) /\ UNCHANGED restVars
  \/ \E c \in ConnIds : HookDeliver(c)
  \/ \E m \in 1..MaxSends, dbOk \in BOOLEAN : ApiMessagesPost(m, dbOk)
  \/ \E c \in ConnIds, dbOk \in BOOLEAN : LoadServed(c, dbOk)
  \/ \E c \in ConnIds : LoadReturns(c)

SpecHook == InitHook /\ [][NextHook]_vars

\* the /api/socket route with requests that fail, and the connections the
\* server accepts once it is there
NextStart ==
  \/ \E method \in Methods, handle \in Handles : ApiSocketRequest(method, handle)
  \/ \E c \in ConnIds, p \in NewPhones, s \in servers : Connect(c, p, s) /\ UNCHANGED restVars
  \/ \E c \in ConnIds : Disconnect(c) /\ UNCHANGED restVars
  \/ \E c \in ConnIds : Recv(c) /\ UNCHANGED restVars
  \/ \E c \in ConnIds : Deliver(c) /\ UNCHANGED restVars

SpecStart == Init /\ [][NextStart]_vars

\* sendMessage called in every state of its hook: by the chat input or
\* directly, with and without identity, socket and content
NextSend ==
  \/ \E c \in ConnIds, content \in CallContents : sendMessage(c, content)
  \/ \E c \in ConnIds, content \in CallContents : sendMessageReturns(c, content)
  \/ \E c \in ConnIds, content \in CallContents : handleSend(c, content)
  \/ \E c \in ConnIds : ClientEnds(c, "loss")

SpecSend == InitChat /\ [][NextSend]_vars

\* a chat in which some clients may be tabs of one user (one phone)
InitTabs == \E f \in PhonesOf(MaxConns) : InitOpenAs(MaxConns, f)

NextTabs ==
  \/ \E c \in ConnIds : sendMessage(c, "hi")
  \/ \E c \in ConnIds : Recv(c) /\ UNCHANGED restVars
  \/ \E c \in ConnIds : HookDeliver(c)

SpecTabs == InitTabs /\ [][NextTabs]_vars

\* typing indicators among all the clients there can be
NextTyping ==
  \/ \E c \in ConnIds, f \in TypingFlags : typing(c, f)
  \/ \E c \in ConnIds : Recv(c) /\ UNCHANGED restVars
  \/ \E c \in ConnIds : HookDeliver(c)

SpecTyping == InitLoss /\ [][NextTyping]_vars

\* one ChatRoom whose useChat effect runs, is cleaned up and runs again,
\* with the route and the relay it talks to
NextMount ==
  \/ \E e \in 1..MaxRuns, identity \in BOOLEAN : EffectRuns(e, identity)
  \/ \E e \in 1..MaxRuns, handle \in Handles : WarmUpReturns(e, handle)
  \/ \E e \in 1..MaxRuns : Accept(e)
  \/ \E e \in 1..MaxRuns : Cleanup(e)
  \/ \E c \in ConnIds : gone[c] = {} /\ Deliver(c) /\ UNCHANGED restVars
  \/ \E c \in ConnIds : Recv(c) /\ UNCHANGED restVars
  \/ \E c \in ConnIds : gone[c] # {} /\ Disconnect(c) /\ UNCHANGED restVars

SpecMount == Init /\ [][NextMount]_vars

\* ------------------------------------------------------------------ claims
\* nothing is in flight between any client and the server
Quiescent == \A c \in ConnIds : inq[c] = << >> /\ outq[c] = << >>

\* the phones of the live connections whose identify the server has read
IdentifiedPhones == {identified[c] : c \in {d \in live : identified[d] # Absent}}

\* number of entries of sequence q that satisfy Test
Count(q, Test(_)) == Len(SelectSeq(q, Test))

\* copies of relayed event m that connection d has been sent (in flight or received)
CopiesAt(d, m) ==
  LET IsM(e) == e.type \in {"message", "typing"} /\ e.seq = m
      IsSeq(n) == n = m
  IN Count(outq[d], IsM) + Count(rx[d], IsSeq)

\* C1: at every quiescent point the connectedUsers value last broadcast equals
\* the number of distinct phones with at least one live identified connection.
C1_CountIsDistinctPhones ==
  Quiescent => lastInfo = Cardinality(IdentifiedPhones)

\* C2: an event relayed for connection C reaches every other connection that
\* was live at relay time (and still is) exactly once, and never C itself.
C2_RelayedExactlyOnce ==
  \A m \in 1..MaxEmits : \A d \in ConnIds :
    CopiesAt(d, m) = IF d \in targets[m] THEN 1 ELSE 0

\* C2 witness: the message of connection 1 is on its way to connection 2,
\* and connection 1 has been sent no copy
C2_Witness ==
  \E m \in 1..MaxEmits :
    /\ {1, 2} \subseteq live
    /\ targets[m] = live \ {1}
    /\ outq[2] # << >>
    /\ outq[2][Len(outq[2])] = Message(NameOf(1), phoneOf[1], "hi", m)
    /\ CopiesAt(1, m) = 0

\* C3: a GET /api/socket that finds io set returns that instance, creates no
\* server and registers no handler; only one initialization ever takes effect,
\* so every connection runs the connection callback once (one relayed copy).
C3_InitIdempotent ==
  /\ [][(ApiSocket("GET") /\ io # NoServer) =>
          (returned' = io /\ io' = io /\ servers' = servers /\ handlers' = handlers)]_vars
  /\ [](Cardinality(servers) <= 1 /\ \A s \in servers : handlers[s] = 1)
  /\ [](\A c \in live : listeners[c] = 1)

\* C3 witness: after initialization (any number of GET /api/socket later) one
\* relayed event has reached the other connection once
C3_Witness ==
  /\ io # NoServer /\ returned = io /\ servers = {io}
  /\ \E d \in live : Len(rx[d]) = 1 /\ listeners[d] = 1

\* C4: across initSocket calls and hot reloads at most one Socket.IO server is
\* created, the connection handler is attached at most once in total, and
\* initSocket always returns that one instance.
C4_OneServerAcrossReloads ==
  /\ Cardinality(servers) <= 1
  /\ \A s \in servers : handlers[s] <= 1
  /\ returned \in servers \cup {NoServer}

\* C5: two live connections identified with the same phone "111", and nobody
\* else: every connection is told connectedUsers = 1.
C5_SamePhoneCountsOnce ==
  (/\ Quiescent
   /\ Cardinality(live) = 2
   /\ \A c \in live : identified[c] = "111")
  => \A c \in live : connectedUsers[c] = 1

Latest(d) ==
  LET IsInfo(e) == e.type = "serverInfo"
      infos == SelectSeq(outq[d], IsInfo)
  IN IF infos = << >> THEN connectedUsers[d] ELSE infos[Len(infos)].connectedUsers

C8_IdentifyBindsPresence ==
  /\ \A c \in live : socketData[c] = identified[c]
  /\ \A c \in ConnIds \ live : socketData[c] = Absent

\* a message has name, phone and content; a typing event has name and flag
WellFormed(e) ==
  /\ e.type = "message" => (e.name # Absent /\ e.phone # Absent /\ e.content # Absent)
  /\ e.type = "typing" => (e.name # Absent /\ e.typing # Absent)

\* C9: an event that lacks a required field is dropped by the server: no
\* connection is ever sent it (and its sender stays connected).
C9_MalformedIsDropped ==
  \A d \in ConnIds : \A i \in DOMAIN outq[d] : WellFormed(outq[d][i])

\* C10: the client identifies first on every (re)connect, and no message or
\* typing event is relayed to or from a connection before the server has
\* processed its identify.
C10_RelayOnlyAfterIdentify ==
  \A c \in live :
    identified[c] = Absent =>
      /\ clientConnected[c] => (inq[c] # << >> /\ Head(inq[c]) = Identify(phoneOf[c]))
      /\ rx[c] = << >>
      /\ \A i \in DOMAIN outq[c] : outq[c][i].type \notin {"message", "typing"}

\* the connection that emitted event m
Sender(m) == CHOOSE c \in ConnIds : NameOf(c) = sent[m].name

\* the events of the chat that were emitted and are of the given type
EmittedOfType(t) == {m \in 1..MaxSends : sent[m].type = t}

\* C11: a typing event of connection C is sent once to every other live
\* connection and never to C, and no POST /api/messages is ever issued for it:
\* the rows of table Message are those of the persisted messages.
C11_TypingRelayedNotStored ==
  /\ \A m \in EmittedOfType("typing") :
       /\ \A d \in ConnIds : CopiesAt(d, m) = IF d \in targets[m] THEN 1 ELSE 0
       /\ targets[m] \in {{}, live \ {Sender(m)}}
       /\ posts[m] = "none"
  /\ Len(messageTable) = Cardinality({m \in EmittedOfType("message") : posts[m] = "200"})

\* C11 witness: every other connection has received a typing event of
\* connection 1, a message was stored meanwhile, and nothing else is stored
C11_Witness ==
  \E m \in EmittedOfType("typing") :
    /\ Sender(m) = 1
    /\ \A d \in live \ {1} : CopiesAt(d, m) = 1 /\ outq[d] = << >>
    /\ CopiesAt(1, m) = 0
    /\ Len(messageTable) = 1

\* C12: when a connection is accepted, the new connection is sent the
\* serverInfo of its own arrival right after its connect packet, every
\* connection that was live is sent the same frame, and the count in it is
\* the number of live connections with the new one; after a disconnect the
\* frame goes to every connection that remains.
C12_PresenceToAllWithNewcomer ==
  /\ [][\A c \in ConnIds : (c \notin live /\ c \in live') =>
          /\ outq'[c] = << ConnectPacket, ServerInfo(Cardinality(live')) >>
          /\ \A d \in live : outq'[d] = Append(outq[d], ServerInfo(Cardinality(live')))]_vars
  /\ [][live' # live =>
          \A d \in live' : /\ outq'[d] # << >>
                            /\ outq'[d][Len(outq'[d])].type = "serverInfo"]_vars

\* C12 witness: connection 2 was accepted while connection 1 was open; both
\* have been sent serverInfo with connectedUsers 2
C12_Witness ==
  /\ live = {1, 2}
  /\ outq[2] = << ConnectPacket, ServerInfo(2) >>
  /\ outq[1] # << >> /\ outq[1][Len(outq[1])] = ServerInfo(2)

\* C13: a message the server sends to a connection is the payload its client
\* emitted: same fields, same values.
C13_RelayedVerbatim ==
  \A d \in ConnIds : \A i \in DOMAIN outq[d] :
    outq[d][i].type = "message" =>
      /\ outq[d][i] = sent[outq[d][i].seq]
      /\ outq[d][i] = Message(NameOf(Sender(outq[d][i].seq)),
                              phoneOf[Sender(outq[d][i].seq)], "hi", outq[d][i].seq)

\* C13 witness: the message of connection 1 is on its way to connection 2
C13_Witness ==
  \E m \in EmittedOfType("message") :
    /\ Sender(m) = 1
    /\ outq[2] # << >>
    /\ outq[2][Len(outq[2])] = Message("A", "111", "hi", m)

\* the serverInfo frames waiting in q
InfoCount(q) ==
  LET IsInfo(e) == e.type = "serverInfo" IN Count(q, IsInfo)

\* C14: a connection leaves the set of live connections in one step, whatever
\* ended it on the client side (cleanup, loss of the transport, or both), and
\* that step sends one serverInfo to every remaining connection; a connect
\* sends one to every connection that was live; no other step sends any, so a
\* closed connection is never handled twice and no change goes unannounced.
C14_OneBroadcastPerChange ==
  /\ [][\A c \in ConnIds : (c \in live /\ c \notin live') =>
          /\ live' = live \ {c}
          /\ \A d \in live' : outq'[d] = Append(outq[d], ServerInfo(Cardinality(live')))]_vars
  /\ [][\A c \in ConnIds : (c \notin live /\ c \in live') =>
          /\ live' = live \cup {c}
          /\ InfoCount(outq'[c]) = 1
          /\ \A d \in live : outq'[d] = Append(outq[d], ServerInfo(Cardinality(live')))]_vars
  /\ [][live' = live => \A d \in live : InfoCount(outq'[d]) <= InfoCount(outq[d])]_vars

\* C14 witness: the client of connection 2 ran its cleanup and lost its
\* transport as well; the server has closed connection 2, and connection 1,
\* which had read every frame before, has exactly one serverInfo to read
C14_Witness ==
  /\ gone[2] = ClosePaths /\ 2 \notin live
  /\ live = {1} /\ gone[1] = {}
  /\ connectedUsers[1] = 2
  /\ outq[1] = << ServerInfo(1) >>

\* the events connection d has been sent, in the order they were sent to it
SentTo(d) ==
  LET IsRelayed(e) == e.type \in {"message", "typing"}
      q == SelectSeq(outq[d], IsRelayed)
  IN rx[d] \o [i \in DOMAIN q |-> q[i].seq]

\* C15: each connection is sent the events of one sender in the order the
\* sender emitted them (sequence numbers count the emits).
C15_PerSenderOrder ==
  \A d \in ConnIds : \A i, j \in DOMAIN SentTo(d) :
    (i < j /\ Sender(SentTo(d)[i]) = Sender(SentTo(d)[j])) => SentTo(d)[i] < SentTo(d)[j]

\* C15 witness: connection 2 has received two events of connection 1, a
\* message and a typing event, in the order they were emitted
C15_Witness ==
  /\ Len(rx[2]) = 2 /\ rx[2][1] < rx[2][2]
  /\ Sender(rx[2][1]) = 1 /\ Sender(rx[2][2]) = 1
  /\ sent[rx[2][1]].type # sent[rx[2][2]].type

\* C16: an event is relayed to every other live connection, also when some of
\* them are gone (their frames are written and never read); when the server
\* closes a connection it closes that one only, and what it holds about the
\* other connections (identity, listeners, events waiting) stays as it was.
C16_FailureIsLocal ==
  /\ [](\A m \in 1..MaxEmits : \A d \in targets[m] : CopiesAt(d, m) = 1)
  /\ [][\A c \in ConnIds : (c \in live /\ inq[c] # << >> /\ Recv(c)) =>
          \A d \in live \ {c} : outq'[d] = Append(outq[d], Head(inq[c]))]_vars
  /\ [][\A c \in ConnIds : (c \in live /\ c \notin live') =>
          /\ live' = live \ {c}
          /\ \A d \in live' : /\ identified'[d] = identified[d]
                              /\ socketData'[d] = socketData[d]
                              /\ listeners'[d] = listeners[d]
                              /\ srvOf'[d] = srvOf[d]
                              /\ clientConnected'[d] = clientConnected[d]
                              /\ inq'[d] = inq[d] /\ rx'[d] = rx[d]]_vars
  /\ [][\A c \in ConnIds, path \in ClosePaths : ClientEnds(c, path) =>
          (live' = live /\ identified' = identified /\ outq' = outq)]_vars

\* C16 witness: connection 2 lost its transport and is not closed yet; a
\* typing event of connection 1 was relayed then: connection 2 never read its
\* copy, connection 3 has received its own
C16_Witness ==
  \E m \in 1..MaxEmits :
    /\ live = {1, 2, 3}
    /\ gone = [c \in ConnIds |-> IF c = 2 THEN {"loss"} ELSE {}]
    /\ outq[2] = << Typing(NameOf(1), "true", m) >>
    /\ rx[3] = << m >> /\ outq[3] = << >>

\* event m is on its way from its sender to the server
OnTheWire(m) == \E i \in DOMAIN inq[Sender(m)] : inq[Sender(m)][i].seq = m

\* C17: whenever a POST /api/messages exists for a message, the message was
\* emitted already; once relayed, every other connection has been sent it
\* once whatever became of the POST; and a POST that was answered (200, 400
\* or 500) is never issued again.
C17_RelayBeforePersistence ==
  /\ [](\A m \in 1..MaxSends : posts[m] # "none" =>
          /\ sent[m].type = "message"
          /\ OnTheWire(m) \/ targets[m] = live \ {Sender(m)}
          /\ \A d \in targets[m] : CopiesAt(d, m) = 1)
  /\ [][\A m \in 1..MaxSends :
          posts[m] \in {"200", "400", "500"} => posts'[m] = posts[m]]_vars
  /\ [](Len(messageTable) <= Cardinality({m \in 1..MaxSends : posts[m] = "200"}))

\* C17 witness: the POST of a message of connection 1 was answered 500,
\* nothing is stored, and every other connection has received the message
C17_Witness ==
  \E m \in EmittedOfType("message") :
    /\ Sender(m) = 1
    /\ posts[m] = "500"
    /\ messageTable = << >>
    /\ \A d \in live \ {1} : \E i \in DOMAIN rx[d] : rx[d][i] = m

\* the body of request q has a valid name and a valid phone
ValidInput(q) == isValidName(q.name) /\ q.phone # Missing /\ isValidPhone(q.phone)

\* the handlers that have answered
Answered == {r \in 1..MaxReqs : userReqs[r].pc = "done"}

\* the response of request r carries the User record with the request's phone
ReturnsTheUser(r) ==
  \E u \in userTable : u.phone = userReqs[r].phone /\ u.id = userReqs[r].user

\* C18: table User never holds two rows with one phone, and every request
\* with a valid body is answered with the User of its phone, whether issued
\* after or during other requests for the same phone (the store itself not
\* failing).
C18_FindOrCreateIdempotent ==
  /\ \A p \in UserPhones : Cardinality(FindUnique(userTable, p)) <= 1
  /\ \A r \in Answered :
       (ValidInput(userReqs[r]) /\ userReqs[r].cause # "store") =>
         (userReqs[r].status \in {200, 201} /\ ReturnsTheUser(r))

\* C20: a valid body is answered 201 with the User, created or found; an
\* invalid name or phone is answered 400 and creates no row; a store failure
\* is answered 500.
C20_UsersPostStatus ==
  /\ \A r \in Answered :
       /\ (ValidInput(userReqs[r]) /\ userReqs[r].cause # "store") =>
            (userReqs[r].status = 201 /\ ReturnsTheUser(r))
       /\ ~ValidInput(userReqs[r]) => userReqs[r].status = 400
       /\ userReqs[r].cause = "store" => userReqs[r].status = 500
  /\ \A u \in userTable : isValidName(u.name) /\ u.phone # Missing /\ isValidPhone(u.phone)

\* C19: a GET /api/messages answered 200 returns the most recent 50 of the
\* rows stored when it was served (all of them if fewer), oldest of those
\* first; with more than 50 rows stored the newest row is among them.
C19_HistoryIsLatestFifty ==
  history.status = "200" =>
    LET n == history.of
        k == IF n < TakeLimit THEN n ELSE TakeLimit
    IN /\ Len(history.body) = k
       /\ \A i \in 1..k : history.body[i].timestamp = n - k + i
       /\ n > TakeLimit => \E i \in 1..k : history.body[i].timestamp = n

\* C21: a GET /api/socket whose initialization throws is answered 500 and
\* logged, and leaves no instance behind: io, the flag, the servers and their
\* handlers are as before; whenever the route has answered 200 there is one
\* Socket.IO server, it is the shared instance, and its connection handler is
\* attached once, also after earlier requests have failed.
C21_FailedInitLeavesNothing ==
  /\ [][socketRoute'.errors # socketRoute.errors =>
          /\ socketRoute'.status = 500
          /\ socketRoute'.errors = socketRoute.errors + 1
          /\ io' = io /\ isInitialized' = isInitialized
          /\ servers' = servers /\ handlers' = handlers]_vars
  /\ [](io # NoServer => (isInitialized /\ servers = {io} /\ handlers[io] = 1))
  /\ [](io = NoServer => (~isInitialized /\ servers = {}))
  /\ [](socketRoute.status = 200 => io # NoServer)
  /\ [][(socketRoute.status = 500 /\ socketRoute'.status = 200) =>
          (io' # NoServer /\ handlers'[io'] = 1)]_vars

\* C21 witness: a GET failed before any server existed, a later GET was
\* answered 200, and a connection accepted since has its handlers once
C21_Witness ==
  /\ socketRoute = [status |-> 200, errors |-> 1]
  /\ io = 1 /\ handlers[1] = 1
  /\ live = {1} /\ listeners[1] = 1

\* the entries of list that stand for the message of send m
CopiesIn(list, m) ==
  LET IsM(e) == e.seq = m IN Count(list, IsM)

\* C22: every message a client has sent is in that client's own messages
\* list exactly once.
C22_OwnMessageOnce ==
  \A m \in EmittedOfType("message") : CopiesIn(messages[Sender(m)], m) = 1

\* C27: when the response of a history load reaches the hook, every message
\* that was in the client's list is still in it.
C27_LoadKeepsDisplayed ==
  [][\A c \in ConnIds :
       (loads[c].pc = "answered" /\ loads'[c].pc = "none") =>
         \A i \in DOMAIN messages[c] : CopiesIn(messages'[c], messages[c][i].seq) >= 1]_vars

\* C28: in every client's list, an entry for a message this client sent is
\* drawn as own, and an entry with another user's phone is not.
C28_OwnIffAuthoredHere ==
  \A c \in live : \A i \in DOMAIN messages[c] :
    LET e == messages[c][i] IN
    /\ Sender(e.seq) = c => isOwn(e)
    /\ e.phone # phoneOf[c] => ~isOwn(e)

C24_NoSocketAfterCleanup ==
  \A e \in 1..MaxRuns : effects[e].cleaned => effects[e].sock \notin {"opening", "open"}

\* a call of sendMessage by c with content x has to return early
MustReturn(c, x) ==
  \/ phoneOf[c] = Absent \/ x \in {Absent, " "}
  \/ c \notin live \/ ~clientConnected[c] \/ gone[c] # {}

\* the sends of client c so far
SendsOf(c) == {m \in EmittedOfType("message") : Sender(m) = c}

\* C25: a call of sendMessage without identity, with empty or white-space
\* content, or without a connected socket changes no messages list, puts
\* nothing on the wire and issues no POST; so every list holds one own
\* entry per accepted send and every POST belongs to one.
C25_RejectedSendDoesNothing ==
  /\ [][\A c \in ConnIds, x \in CallContents :
          (lastCall' = [by |-> c, content |-> x] /\ lastCall' # lastCall /\ MustReturn(c, x)) =>
            /\ messages' = messages /\ inq' = inq /\ sent' = sent
            /\ posts' = posts /\ nEmits' = nEmits]_vars
  /\ [](\A c \in ConnIds :
          Count(messages[c], isOwn) = Cardinality(SendsOf(c)))
  /\ [](\A m \in 1..MaxSends : posts[m] # "none" => sent[m].content = "hi")

\* C25 witness: a connected client has called sendMessage with white space,
\* another call came from a client whose connection is lost; nothing was
\* added, emitted or posted
C25_Witness ==
  /\ lastCall = [by |-> 1, content |-> " "]
  /\ 1 \in live /\ clientConnected[1] /\ gone[2] = {"loss"}
  /\ nEmits = 0 /\ messages = [c \in ConnIds |-> << >>]
  /\ \A m \in 1..MaxSends : posts[m] = "none"

\* the typing events client c has received, oldest first
TypingsAt(c) ==
  LET IsTyping(m) == sent[m].type = "typing" IN SelectSeq(rx[c], IsTyping)

\* C26: typingUser of a client is null while it has received no typing
\* event; afterwards it is the name in the last one received if that one
\* says typing, and null if it says not typing, whatever came before it and
\* from whom.
C26_TypingLastWriteWins ==
  \A c \in live :
    LET q == TypingsAt(c) IN
    IF q = << >> THEN typingUser[c] = Absent
    ELSE LET last == sent[q[Len(q)]] IN
         typingUser[c] = IF last.typing = "true" THEN last.name ELSE Absent

\* C26 witness: client 3 has received "A is typing" and then "B is not
\* typing": its indicator is cleared although A has not stopped
C26_Witness ==
  /\ Len(rx[3]) = 2
  /\ sent[rx[3][1]] = Typing("A", "true", rx[3][1])
  /\ sent[rx[3][2]] = Typing("B", "false", rx[3][2])
  /\ typingUser[3] = Absent

\* the entries the message handler of a client with the given phone adds
\* for the frames q
Shown(q, phone) ==
  LET Other(e) == e.type = "message" /\ e.phone # phone
      o == SelectSeq(q, Other)
  IN [i \in DOMAIN o |-> Entry(o[i].name, o[i].phone, o[i].content, o[i].seq)]

\* the sends whose entries in list are not the client's own copies
ReceivedIn(list) ==
  LET NotOwn(e) == ~isOwn(e)
      o == SelectSeq(list, NotOwn)
  IN [i \in DOMAIN o |-> o[i].seq]

\* the messages among the events ms that come from another phone
FromOthers(ms, phone) ==
  LET Other(m) == sent[m].type = "message" /\ sent[m].phone # phone
  IN SelectSeq(ms, Other)

C30_HandlersBeforeEvents ==
  /\ [](\A c \in live : listeners[c] >= 1)
  /\ [][\A c \in live :
          (live' = live /\ inq[c] # << >> /\ inq'[c] = Tail(inq[c])) =>
            Head(inq[c]).type \in HandledEvents]_vars
  /\ [](\A c \in ConnIds \ live : inq[c] = << >> /\ outq[c] = << >>)

====
